---- MODULE Spec2Model ----
(***************************************************************************)
(* Model of package dbc (src/dbc.go): thin wrappers DbRow, DbStmt and      *)
(* TxHandle around database/sql's Row, Stmt and Tx, and the one piece of   *)
(* original logic, DbStmt.BatchInsert.                                     *)
(*                                                                         *)
(* A wrapper operation is an operator that yields the calls it makes on    *)
(* the wrapped database/sql object (in order, each with the arguments the  *)
(* wrapped object receives and the error it answers) together with what    *)
(* the wrapper returns.  The answer of the database driver to a call is an *)
(* input of the operation, drawn from a small set.  What database/sql      *)
(* itself decides before the driver is reached (a finished transaction, a  *)
(* closed statement, the checks of Row.Scan) is modelled by the Sql*       *)
(* operators.                                                              *)
(***************************************************************************)
EXTENDS Integers, Sequences, FiniteSets

VARIABLES pc, last, batch, stmtClosed, stmtInTx, txDone, txFinal, commitCalled

vars == <<pc, last, batch, stmtClosed, stmtInTx, txDone, txFinal, commitCalled>>

(* ---------------------------- bounds ----------------------------------- *)

\* longest row list handed to BatchInsert
MaxRows == 2
\* most values in one argument list / columns in one row
MaxCols == 2

\* opaque column / argument values
Val == {"x", "y"}
\* errors a driver may answer
DrvErr == {"E1", "E2"}

Nil == "nil"
Unset == "unset"
ErrTxDone == "sql.ErrTxDone"
ErrStmtClosed == "sql: statement is closed"
ErrNoRows == "sql.ErrNoRows"
ErrScanCount == "sql: expected n destination arguments in Scan"
ErrNotPointer == "sql: destination not a pointer"

\* what a driver answers to one call: success or one of its errors
Outcome == {Nil} \cup DrvErr

SeqUpTo(S, n) == UNION {[1..k -> S] : k \in 0..n}

\* an argument list, or the values of one row (DbRowV.V)
ArgList == SeqUpTo(Val, MaxCols)
\* the input of BatchInsert
RowList == SeqUpTo(ArgList, MaxRows)

\* destinations of a Scan: pointers to distinct caller variables
Slot == 1..MaxCols
DestList == {d \in SeqUpTo(Slot, MaxCols) :
               \A i, j \in 1..Len(d) : i # j => d[i] # d[j]}
NoMem == [s \in Slot |-> Unset]

(* ------------------- Go variadic calls --------------------------------- *)

\* f(args...): the callee receives the elements of args as its arguments
Spread(args) == [wrapped |-> FALSE, elems |-> args]
\* f(args): the callee receives one argument, the slice args itself
AsOne(args) == [wrapped |-> TRUE, elems |-> args]
\* number of arguments the callee receives
NumArgs(a) == IF a.wrapped THEN 1 ELSE Len(a.elems)
NoArgs == Spread(<<>>)

(* ------------------- single-row results -------------------------------- *)

\* a *sql.Row: a deferred error, or a result with or without a row
NoRow == [err |-> Nil, found |-> FALSE, cols |-> <<>>]
SqlRows == {[err |-> e, found |-> FALSE, cols |-> <<>>] : e \in DrvErr}
           \cup {[err |-> Nil, found |-> f, cols |-> c] :
                   f \in BOOLEAN, c \in ArgList}

\* one call on a wrapped database/sql object, as the log records it
Call(op, args, err, drv) ==
  [op |-> op, args |-> args, err |-> err, drv |-> drv]

\* what a wrapper operation yields
Result(calls, err, row, mem) ==
  [calls |-> calls, err |-> err, row |-> row, mem |-> mem]

(* ------------------- database/sql ------------------------------------- *)

\* sql.Stmt.Exec: a closed statement fails before the driver is reached
SqlStmtExec(a, o) ==
  IF stmtClosed THEN Call("Stmt.Exec", a, ErrStmtClosed, FALSE)
  ELSE Call("Stmt.Exec", a, o, TRUE)

\* sql.Stmt.QueryRow: the error is deferred into the row
SqlStmtQueryRow(a, r) ==
  IF stmtClosed
  THEN [call |-> Call("Stmt.QueryRow", a, ErrStmtClosed, FALSE),
        row |-> [err |-> ErrStmtClosed, found |-> FALSE, cols |-> <<>>]]
  ELSE [call |-> Call("Stmt.QueryRow", a, r.err, TRUE), row |-> r]

\* sql.Stmt.Close: closing twice is a no-op that answers nil
SqlStmtClose(o) ==
  IF stmtClosed THEN Call("Stmt.Close", NoArgs, Nil, FALSE)
  ELSE Call("Stmt.Close", NoArgs, o, TRUE)

\* sql.Tx.Exec: a finished transaction answers ErrTxDone
SqlTxExec(a, o) ==
  IF txDone THEN Call("Tx.Exec", a, ErrTxDone, FALSE)
  ELSE Call("Tx.Exec", a, o, TRUE)

\* sql.Tx.Prepare
SqlTxPrepare(o) ==
  IF txDone THEN Call("Tx.Prepare", NoArgs, ErrTxDone, FALSE)
  ELSE Call("Tx.Prepare", NoArgs, o, TRUE)

\* sql.Tx.QueryRow
SqlTxQueryRow(a, r) ==
  IF txDone
  THEN [call |-> Call("Tx.QueryRow", a, ErrTxDone, FALSE),
        row |-> [err |-> ErrTxDone, found |-> FALSE, cols |-> <<>>]]
  ELSE [call |-> Call("Tx.QueryRow", a, r.err, TRUE), row |-> r]

\* sql.Tx.Commit: the first Commit or Rollback marks the transaction done
SqlTxCommit(o) ==
  IF txDone THEN Call("Tx.Commit", NoArgs, ErrTxDone, FALSE)
  ELSE Call("Tx.Commit", NoArgs, o, TRUE)

\* sql.Tx.Rollback
SqlTxRollback(o) ==
  IF txDone THEN Call("Tx.Rollback", NoArgs, ErrTxDone, FALSE)
  ELSE Call("Tx.Rollback", NoArgs, o, TRUE)

\* sql.Row.Scan(dest...): the row's deferred error, then "no rows", then the
\* destination count, then each destination must be a pointer
SqlRowScan(r, d) ==
  IF r.err # Nil THEN [err |-> r.err, mem |-> NoMem]
  ELSE IF ~r.found THEN [err |-> ErrNoRows, mem |-> NoMem]
  ELSE IF NumArgs(d) # Len(r.cols) THEN [err |-> ErrScanCount, mem |-> NoMem]
  ELSE IF d.wrapped THEN [err |-> ErrNotPointer, mem |-> NoMem]
  ELSE [err |-> Nil,
        mem |-> [s \in Slot |->
                   IF \E i \in 1..Len(d.elems) : d.elems[i] = s
                   THEN r.cols[CHOOSE i \in 1..Len(d.elems) : d.elems[i] = s]
                   ELSE Unset]]

(* ------------------- the wrappers of dbc.go ---------------------------- *)

\* DbRow.Scan: return r.R.Scan(args)
DbRowScan(r, dests) ==
  LET s == SqlRowScan(r, AsOne(dests))
  IN Result(<<Call("Row.Scan", AsOne(dests), s.err, TRUE)>>, s.err, r, s.mem)

\* a Close that drops the error of the wrapped Close
DbStmtClose_Swallow(o) ==
  Result(<<SqlStmtClose(o)>>, Nil, NoRow, NoMem)

\* DbStmt.Close: return st.S.Close()
DbStmtClose(o) ==
  LET c == SqlStmtClose(o) IN Result(<<c>>, c.err, NoRow, NoMem)

\* DbStmt.Exec: return st.S.Exec(args)
DbStmtExec(args, o) ==
  LET c == SqlStmtExec(AsOne(args), o) IN Result(<<c>>, c.err, NoRow, NoMem)

\* DbStmt.QueryRow: return &DbRow{st.S.QueryRow(args)}
DbStmtQueryRow(args, r) ==
  LET q == SqlStmtQueryRow(AsOne(args), r)
  IN Result(<<q.call>>, Nil, q.row, NoMem)

\* the BatchInsert in flight: its rows, the next row, the calls made so far
NoBatch == [st |-> "idle", rows |-> <<>>, i |-> 1, calls |-> <<>>, err |-> Nil]
Running(rows) ==
  [st |-> "running", rows |-> rows, i |-> 1, calls |-> <<>>, err |-> Nil]
Returns(b, calls, err) ==
  [st |-> "returned", rows |-> b.rows, i |-> b.i, calls |-> calls, err |-> err]

\* a BatchInsert that goes on after a failed row
BatchInsertStep_Continue(b, o) ==
  IF b.i <= Len(b.rows)
  THEN LET e == DbStmtExec(b.rows[b.i], o)
       IN [b EXCEPT !.i = b.i + 1, !.calls = b.calls \o e.calls,
                    !.err = IF b.err = Nil THEN e.err ELSE b.err]
  ELSE LET f == DbStmtExec(<<>>, o)
       IN Returns(b, b.calls \o f.calls, IF b.err = Nil THEN f.err ELSE b.err)

\* a BatchInsert that returns early, without the flush, on an empty list
BatchInsertStep_SkipEmpty(b, o) ==
  IF b.rows = <<>> THEN Returns(b, <<>>, Nil)
  ELSE IF b.i <= Len(b.rows)
  THEN LET e == DbStmtExec(b.rows[b.i], o)
       IN IF e.err # Nil
          THEN Returns(b, b.calls \o e.calls, e.err)
          ELSE [b EXCEPT !.i = b.i + 1, !.calls = b.calls \o e.calls]
  ELSE LET f == DbStmtExec(<<>>, o)
       IN Returns(b, b.calls \o f.calls, f.err)

\* a BatchInsert that drops the error of the flush
BatchInsertStep_DropFlushErr(b, o) ==
  IF b.i <= Len(b.rows)
  THEN LET e == DbStmtExec(b.rows[b.i], o)
       IN IF e.err # Nil
          THEN Returns(b, b.calls \o e.calls, e.err)
          ELSE [b EXCEPT !.i = b.i + 1, !.calls = b.calls \o e.calls]
  ELSE LET f == DbStmtExec(<<>>, o)
       IN Returns(b, b.calls \o f.calls, Nil)

\* a BatchInsert that closes the statement when a row fails
BatchInsertStep_CloseOnError(b, o) ==
  IF b.i <= Len(b.rows)
  THEN LET e == DbStmtExec(b.rows[b.i], o)
       IN IF e.err # Nil
          THEN Returns(b, b.calls \o e.calls \o <<SqlStmtClose(Nil)>>, e.err)
          ELSE [b EXCEPT !.i = b.i + 1, !.calls = b.calls \o e.calls]
  ELSE LET f == DbStmtExec(<<>>, o)
       IN Returns(b, b.calls \o f.calls, f.err)

\* DbStmt.BatchInsert, one blocking st.Exec at a time: the execute of the
\* next row (an error returns at once), or, past the last row, the flush
BatchInsertStep(b, o) ==
  IF b.i <= Len(b.rows)
  THEN LET e == DbStmtExec(b.rows[b.i], o)
       IN IF e.err # Nil
          THEN Returns(b, b.calls \o e.calls, e.err)
          ELSE [b EXCEPT !.i = b.i + 1, !.calls = b.calls \o e.calls]
  ELSE LET f == DbStmtExec(<<>>, o)
       IN Returns(b, b.calls \o f.calls, f.err)

\* TxHandle.Exec: return tx.T.Exec(query, args...)
TxHandleExec(args, o) ==
  LET c == SqlTxExec(Spread(args), o) IN Result(<<c>>, c.err, NoRow, NoMem)

\* TxHandle.Prepare: s, err := tx.T.Prepare(query); return &DbStmt{s}, err
TxHandlePrepare(o) ==
  LET c == SqlTxPrepare(o) IN Result(<<c>>, c.err, NoRow, NoMem)

\* TxHandle.QueryRow: return &DbRow{tx.T.QueryRow(query, args)}
TxHandleQueryRow(args, r) ==
  LET q == SqlTxQueryRow(AsOne(args), r)
  IN Result(<<q.call>>, Nil, q.row, NoMem)

\* a Commit that answers nil without forwarding to the transaction
TxHandleCommit_NoForward(o) == Result(<<>>, Nil, NoRow, NoMem)

\* a Commit that forwards to the wrong finalizer
TxHandleCommit_CallsRollback(o) ==
  LET c == SqlTxRollback(o) IN Result(<<c>>, c.err, NoRow, NoMem)

\* TxHandle.Commit: return tx.T.Commit()
TxHandleCommit(o) ==
  LET c == SqlTxCommit(o) IN Result(<<c>>, c.err, NoRow, NoMem)

\* TxHandle.Rollback: return tx.T.Rollback()
TxHandleRollback(o) ==
  LET c == SqlTxRollback(o) IN Result(<<c>>, c.err, NoRow, NoMem)

(* ------------------- the state machine --------------------------------- *)

(***************************************************************************)
(* dbc.go holds no lock: BatchInsert is N+1 separate blocking calls, and   *)
(* between two of them another goroutine may call Close on the statement   *)
(* or Commit / Rollback on the transaction.  batch is the BatchInsert in   *)
(* flight; pc and last are the caller of the single-call operations.  Each *)
(* single call on a database/sql object is one step (database/sql takes    *)
(* its own locks around it).  The operations that change nothing a         *)
(* BatchInsert reads (Exec, QueryRow, Prepare, Scan) are recorded between  *)
(* batches; during a batch they are stuttering steps.                      *)
(***************************************************************************)

Idle == [op |-> "none", args |-> <<>>, calls |-> <<>>,
         err |-> Nil, row |-> NoRow, mem |-> NoMem]

HasCall(calls, ops) == \E i \in 1..Len(calls) : calls[i].op \in ops

Took(calls, op) ==
  \E i \in 1..Len(calls) :
    calls[i].op = op /\ calls[i].drv /\ calls[i].err = Nil

\* a Commit or Rollback that was not refused: sql.Tx then closes the
\* statements prepared on it
TxFinished(calls) ==
  \E i \in 1..Len(calls) :
    calls[i].op \in {"Tx.Commit", "Tx.Rollback"} /\ calls[i].drv

\* the mark the calls leave on the wrapped statement and transaction
Effects(calls) ==
  /\ stmtClosed' = \/ stmtClosed
                   \/ HasCall(calls, {"Stmt.Close"})
                   \/ (stmtInTx /\ TxFinished(calls))
  /\ txDone' = (txDone \/ HasCall(calls, {"Tx.Commit", "Tx.Rollback"}))
  /\ txFinal' = IF Took(calls, "Tx.Commit") THEN "committed"
                ELSE IF Took(calls, "Tx.Rollback") THEN "rolledback"
                ELSE txFinal
  /\ UNCHANGED stmtInTx

\* the single-call operation op, called with args, returned r
Finish(op, args, r) ==
  /\ pc' = "returned"
  /\ last' = [op |-> op, args |-> args, calls |-> r.calls,
              err |-> r.err, row |-> r.row, mem |-> r.mem]
  /\ Effects(r.calls)
  /\ commitCalled' = (commitCalled \/ op = "TxHandle.Commit")
  /\ UNCHANGED batch

\* no result is waiting to be read
Quiet == pc = "idle" /\ batch.st # "returned"

Init ==
  /\ pc = "idle"
  /\ last = Idle
  /\ batch = NoBatch
  /\ stmtClosed = FALSE
  /\ stmtInTx \in BOOLEAN
  /\ txDone = FALSE
  /\ txFinal = "none"
  /\ commitCalled = FALSE

Scan ==
  /\ Quiet /\ batch.st = "idle"
  /\ \E r \in SqlRows, d \in DestList :
       Finish("DbRow.Scan", d, DbRowScan(r, d))

StmtClose ==
  /\ Quiet
  /\ \E o \in Outcome : Finish("DbStmt.Close", <<>>, DbStmtClose(o))

StmtExec ==
  /\ Quiet /\ batch.st = "idle"
  /\ \E a \in ArgList, o \in Outcome :
       Finish("DbStmt.Exec", a, DbStmtExec(a, o))

StmtQueryRow ==
  /\ Quiet /\ batch.st = "idle"
  /\ \E a \in ArgList, r \in SqlRows :
       Finish("DbStmt.QueryRow", a, DbStmtQueryRow(a, r))

\* BatchInsert is called with rows
BatchInsertCall ==
  /\ Quiet /\ batch.st = "idle"
  /\ \E rows \in RowList : batch' = Running(rows)
  /\ UNCHANGED <<pc, last, stmtClosed, stmtInTx, txDone, txFinal, commitCalled>>

\* the next st.Exec of the BatchInsert in flight
BatchInsertExec ==
  /\ pc = "idle" /\ batch.st = "running"
  /\ \E o \in Outcome :
       /\ batch' = BatchInsertStep(batch, o)
       /\ Effects(SubSeq(batch'.calls, Len(batch.calls) + 1, Len(batch'.calls)))
  /\ UNCHANGED <<pc, last, commitCalled>>

\* the caller of BatchInsert has its result
BatchInsertReturn ==
  /\ pc = "idle" /\ batch.st = "returned"
  /\ batch' = NoBatch
  /\ UNCHANGED <<pc, last, stmtClosed, stmtInTx, txDone, txFinal, commitCalled>>

TxExec ==
  /\ Quiet /\ batch.st = "idle"
  /\ \E a \in ArgList, o \in Outcome :
       Finish("TxHandle.Exec", a, TxHandleExec(a, o))

TxPrepare ==
  /\ Quiet /\ batch.st = "idle"
  /\ \E o \in Outcome : Finish("TxHandle.Prepare", <<>>, TxHandlePrepare(o))

TxQueryRow ==
  /\ Quiet /\ batch.st = "idle"
  /\ \E a \in ArgList, r \in SqlRows :
       Finish("TxHandle.QueryRow", a, TxHandleQueryRow(a, r))

TxCommit ==
  /\ Quiet
  /\ \E o \in Outcome : Finish("TxHandle.Commit", <<>>, TxHandleCommit(o))

TxRollback ==
  /\ Quiet
  /\ \E o \in Outcome : Finish("TxHandle.Rollback", <<>>, TxHandleRollback(o))

\* the caller has its result and is ready for its next call
Return ==
  /\ pc = "returned"
  /\ pc' = "idle"
  /\ last' = Idle
  /\ UNCHANGED <<batch, stmtClosed, stmtInTx, txDone, txFinal, commitCalled>>

Next ==
  \/ Scan
  \/ StmtClose
  \/ StmtExec
  \/ StmtQueryRow
  \/ BatchInsertCall
  \/ BatchInsertExec
  \/ BatchInsertReturn
  \/ TxExec
  \/ TxPrepare
  \/ TxQueryRow
  \/ TxCommit
  \/ TxRollback
  \/ Return

Spec == Init /\ [][Next]_vars

TypeOK ==
  /\ pc \in {"idle", "returned"}
  /\ batch.st \in {"idle", "running", "returned"}
  /\ batch.i \in 1..(MaxRows + 1)
  /\ stmtClosed \in BOOLEAN
  /\ stmtInTx \in BOOLEAN
  /\ txDone \in BOOLEAN
  /\ txFinal \in {"none", "committed", "rolledback"}
  /\ commitCalled \in BOOLEAN
  /\ Len(last.calls) <= 1
  /\ Len(batch.calls) <= MaxRows + 1

(* ------------------- the claims ---------------------------------------- *)

Returned(op) == pc = "returned" /\ last.op = op

BatchReturned == batch.st = "returned"

N == Len(batch.rows)

\* call c is the execute made for row r (however the values are passed)
CarriesRow(c, r) == c.op = "Stmt.Exec" /\ c.args.elems = r

AllSucceeded == \A i \in 1..Len(batch.calls) : batch.calls[i].err = Nil

\* C1 (as claimed): when every execute succeeds, BatchInsert with N rows makes
\* exactly N+1 execute calls, the i-th receiving the values of rows[i] as its
\* arguments, the last one receiving no argument, and returns no error.
C1_AllRowsThenFlush ==
  (BatchReturned /\ AllSucceeded) =>
    /\ Len(batch.calls) = N + 1
    /\ \A i \in 1..N :
         /\ batch.calls[i].op = "Stmt.Exec"
         /\ batch.calls[i].args = Spread(batch.rows[i])
    /\ batch.calls[N + 1].op = "Stmt.Exec"
    /\ batch.calls[N + 1].args = NoArgs
    /\ batch.err = Nil

\* C2: if the execute of row k is the first that fails, BatchInsert returns
\* exactly that error, the failing call is the last call made (no later row,
\* no flush), and rows before k were each executed once, in order.
C2_StopsAtFirstFailure ==
  BatchReturned =>
    \A k \in 1..N :
      ( /\ k <= Len(batch.calls)
        /\ batch.calls[k].err # Nil
        /\ \A i \in 1..(k - 1) : batch.calls[i].err = Nil )
      => /\ batch.err = batch.calls[k].err
         /\ Len(batch.calls) = k
         /\ \A i \in 1..k : CarriesRow(batch.calls[i], batch.rows[i])

C2_Witness ==
  /\ BatchReturned
  /\ N = 2
  /\ batch.rows[1] # batch.rows[2]
  /\ Len(batch.calls) = 1
  /\ batch.calls[1].drv
  /\ batch.err = "E2"

\* C3: BatchInsert with an empty row list makes exactly one execute call and
\* returns no error if and only if that call succeeds.
C3_EmptyListFlushes ==
  (BatchReturned /\ batch.rows = <<>>) =>
    /\ Len(batch.calls) = 1
    /\ batch.calls[1].op = "Stmt.Exec"
    /\ batch.calls[1].args.elems = <<>>
    /\ (batch.err = Nil <=> batch.calls[1].err = Nil)

C3_Witness ==
  /\ BatchReturned
  /\ batch.rows = <<>>
  /\ batch.calls[1].drv
  /\ batch.err = Nil

\* C4: if all N row executes succeed and the flush fails, BatchInsert returns
\* the error of the flush; the N rows were each executed once, in order, and
\* nothing else was called.
C4_FlushFailureReported ==
  ( /\ BatchReturned
    /\ Len(batch.calls) > N
    /\ \A i \in 1..N : batch.calls[i].err = Nil
    /\ batch.calls[N + 1].err # Nil )
  => /\ batch.err = batch.calls[N + 1].err
     /\ Len(batch.calls) = N + 1
     /\ \A i \in 1..N : CarriesRow(batch.calls[i], batch.rows[i])
     /\ batch.calls[N + 1].op = "Stmt.Exec"

C4_Witness ==
  /\ BatchReturned
  /\ N = 2
  /\ Len(batch.calls) = 3
  /\ batch.calls[1].drv /\ batch.calls[2].drv
  /\ ~batch.calls[3].drv
  /\ batch.calls[3].err = ErrStmtClosed
  /\ batch.err = ErrStmtClosed

ForwardsArgs ==
  {"DbStmt.Exec", "DbStmt.QueryRow", "TxHandle.Exec", "TxHandle.QueryRow"}

\* C5 (as claimed): every wrapper operation with positional arguments hands
\* the wrapped call the argument sequence it received, same length and order;
\* BatchInsert with two 2-value rows makes the statement see two 2-argument
\* executes and then one execute with zero arguments.
C5_ArgumentsForwarded ==
  /\ (pc = "returned" /\ last.op \in ForwardsArgs) =>
       /\ Len(last.calls) = 1
       /\ last.calls[1].args = Spread(last.args)
       /\ NumArgs(last.calls[1].args) = Len(last.args)
  /\ ( /\ BatchReturned
       /\ batch.rows = << <<"x", "y">>, <<"y", "x">> >>
       /\ AllSucceeded )
     => /\ Len(batch.calls) = 3
        /\ batch.calls[1].args = Spread(<<"x", "y">>)
        /\ batch.calls[2].args = Spread(<<"y", "x">>)
        /\ NumArgs(batch.calls[3].args) = 0

TxOps ==
  {"TxHandle.Exec", "TxHandle.Prepare", "TxHandle.QueryRow",
   "TxHandle.Commit", "TxHandle.Rollback"}

\* C6: once Commit has been called on the transaction handle, every later
\* Exec, Prepare, Commit and Rollback on it returns an error, a Row from a
\* later QueryRow carries an error that its Scan returns, and none of these
\* calls reaches the driver.
C6_NothingAfterCommit ==
  [][ (pc = "idle" /\ commitCalled /\ last'.op \in TxOps) =>
        /\ \A i \in 1..Len(last'.calls) : ~last'.calls[i].drv
        /\ (last'.op # "TxHandle.QueryRow" => last'.err # Nil)
        /\ (last'.op = "TxHandle.QueryRow" =>
              /\ last'.row.err # Nil
              /\ \A d \in DestList :
                   DbRowScan(last'.row, d).err = last'.row.err) ]_vars

C6_Witness ==
  /\ Returned("TxHandle.Exec")
  /\ commitCalled
  /\ txFinal = "committed"
  /\ last.err = ErrTxDone

\* state of the transaction: which finalizer has taken effect
TxState ==
  CASE txFinal = "committed" -> "Committed"
    [] txFinal = "rolledback" -> "RolledBack"
    [] OTHER -> "Open"

\* C7: the transaction starts Open and leaves Open only to Committed, by a
\* Commit that succeeds, or to RolledBack, by a Rollback; both are terminal,
\* a finished handle never becomes usable again, and once one finalizer has
\* reached the driver no Commit or Rollback reaches it again.
C7_TxStateMachine ==
  [][ /\ (TxState # "Open" => TxState' = TxState)
      /\ (txDone => txDone')
      /\ (TxState = "Open" /\ TxState' = "Committed" =>
            /\ ~txDone
            /\ last'.op = "TxHandle.Commit"
            /\ last'.err = Nil)
      /\ (TxState = "Open" /\ TxState' = "RolledBack" =>
            /\ ~txDone
            /\ last'.op = "TxHandle.Rollback")
      /\ (txDone =>
            \A i \in 1..Len(last'.calls) :
              last'.calls[i].op \in {"Tx.Commit", "Tx.Rollback"}
                => ~last'.calls[i].drv) ]_vars

C7_Witness ==
  /\ Returned("TxHandle.Rollback")
  /\ TxState = "Committed"
  /\ last.err = ErrTxDone

\* C8 (as claimed): Scan with n destinations on a result row of n columns
\* passes those n destinations to the wrapped Scan, copies the i-th column
\* into the i-th destination and returns no error.
C8_ScanCopiesColumns ==
  ( /\ Returned("DbRow.Scan")
    /\ last.row.err = Nil
    /\ last.row.found
    /\ Len(last.args) = Len(last.row.cols) )
  => /\ last.calls[1].args = Spread(last.args)
     /\ last.err = Nil
     /\ \A i \in 1..Len(last.args) : last.mem[last.args[i]] = last.row.cols[i]

SingleCallOps ==
  {"DbStmt.Exec", "DbStmt.Close", "TxHandle.Exec", "TxHandle.Prepare",
   "TxHandle.Commit", "TxHandle.Rollback"}

Wrapped(op) ==
  CASE op = "DbStmt.Exec" -> "Stmt.Exec"
    [] op = "DbStmt.Close" -> "Stmt.Close"
    [] op = "TxHandle.Exec" -> "Tx.Exec"
    [] op = "TxHandle.Prepare" -> "Tx.Prepare"
    [] op = "TxHandle.Commit" -> "Tx.Commit"
    [] op = "TxHandle.Rollback" -> "Tx.Rollback"

\* C9: DbStmt.Exec, DbStmt.Close, TxHandle.Exec, TxHandle.Prepare,
\* TxHandle.Commit and TxHandle.Rollback each make exactly one call, of the
\* corresponding wrapped operation, and return exactly the error it answered
\* (nil if and only if it answered nil).
C9_OneCallErrorPassedOn ==
  (pc = "returned" /\ last.op \in SingleCallOps) =>
    /\ Len(last.calls) = 1
    /\ last.calls[1].op = Wrapped(last.op)
    /\ last.err = last.calls[1].err

C9_Witness ==
  /\ Returned("DbStmt.Close")
  /\ last.calls[1].drv
  /\ last.err = "E1"

\* C10: BatchInsert only makes execute calls on its statement: every step of
\* it, on every path, leaves the statement as open or closed as it was and
\* the transaction as finished or unfinished as it was.
C10_BatchInsertFrame ==
  [][ (batch' # batch) =>
        /\ stmtClosed' = stmtClosed
        /\ txDone' = txDone
        /\ txFinal' = txFinal
        /\ \A i \in 1..Len(batch'.calls) : batch'.calls[i].op = "Stmt.Exec" ]_vars

C10_Witness ==
  /\ BatchReturned
  /\ N = 2
  /\ Len(batch.calls) = 2
  /\ batch.calls[1].drv /\ batch.calls[1].err = Nil
  /\ batch.err = "E1"
  /\ ~stmtClosed
  /\ ~txDone

====
